---------------------------- MODULE Spec2Model ----------------------------
(***************************************************************************)
(* A model of the numerical definitions of the pyglmnet examples           *)
(* (examples/plot_glmnet.py: qu, lmb, penalty; examples/plot_poisson.py:   *)
(* the regularization path and the GLM it configures).                     *)
(*                                                                         *)
(* numpy computes in IEEE-754 binary64.  The model computes in the same    *)
(* kind of binary floating point (sign, significand, exponent; round to    *)
(* nearest, ties to even; gradual underflow; overflow to infinity; NaN),   *)
(* with binary64's exponent range and a significand of Prec bits instead   *)
(* of 53, so that every value is a small record TLC can enumerate.  Zero   *)
(* carries no sign.  exp and log are computed as a libm computes them, by  *)
(* argument reduction and a series in fixed point, and are accurate to one *)
(* unit in the last place; power(b, y) is exp(y log b).                    *)
(***************************************************************************)
EXTENDS Integers, Sequences, FiniteSets

\* ------------------------------------------------------------------------
\* Floating point
\* ------------------------------------------------------------------------

\* Significand width in bits (binary64: 53).
Prec == 7

\* Largest binary exponent of a finite value: values are below 2^(Emax+1).
Emax == 1023

\* Smallest exponent of a normal value.
Emin == -1022

\* A finite value is s * m * 2^e with 0 <= m < 2^Prec and e >= EminSub;
\* it is normal when m >= 2^(Prec-1), subnormal (or zero) when e = EminSub.
EminSub == Emin - (Prec - 1)

NaN == [k |-> "nan", s |-> 1, m |-> 0, e |-> 0]

Inf == [k |-> "inf", s |-> 1, m |-> 0, e |-> 0]

NegInf == [k |-> "inf", s |-> -1, m |-> 0, e |-> 0]

Zero == [k |-> "fin", s |-> 1, m |-> 0, e |-> EminSub]

IsNaN(a) == a.k = "nan"

IsInf(a) == a.k = "inf"

IsFinite(a) == a.k = "fin"

IsZero(a) == a.k = "fin" /\ a.m = 0

SignedInf(s) == IF s = 1 THEN Inf ELSE NegInf

RECURSIVE BitLen(_)
\* Number of bits of the natural number M (0 for 0).
BitLen(M) == IF M = 0 THEN 0 ELSE 1 + BitLen(M \div 2)

MaxOf(a, b) == IF a >= b THEN a ELSE b

\* The value nearest to s * (M + t) * 2^E, M a natural number and t = 0, or
\* 0 < t < 1 when sticky = 1: round to nearest, ties to even, subnormal
\* below 2^Emin, infinite above the largest finite value.
RoundTo(s, M, E, sticky) ==
    IF M = 0 THEN Zero
    ELSE
    LET L == BitLen(M)
        d == MaxOf(L - Prec, EminSub - E)
    IN  IF d <= 0
        THEN IF E + d + (Prec - 1) > Emax
             THEN SignedInf(s)
             ELSE [k |-> "fin", s |-> s, m |-> M * 2^(-d), e |-> E + d]
        ELSE IF d > L THEN Zero
        ELSE
        LET q    == M \div 2^d
            r    == M % 2^d
            half == 2^(d - 1)
            up   == r > half \/ (r = half /\ (sticky = 1 \/ q % 2 = 1))
            m1   == IF up THEN q + 1 ELSE q
            m2   == IF m1 = 2^Prec THEN 2^(Prec - 1) ELSE m1
            e2   == IF m1 = 2^Prec THEN E + d + 1 ELSE E + d
        IN  IF m2 = 0 THEN Zero
            ELSE IF m2 >= 2^(Prec - 1) /\ e2 + (Prec - 1) > Emax
                 THEN SignedInf(s)
                 ELSE [k |-> "fin", s |-> s, m |-> m2, e |-> e2]

\* The value nearest to the integer i.
FromInt(i) == IF i >= 0 THEN RoundTo(1, i, 0, 0) ELSE RoundTo(-1, -i, 0, 0)

\* The value nearest to num / den (num, den > 0), as a decimal literal such as
\* 0.5 or 0.01 is read.
FromRatio(num, den) ==
    LET sh == Prec + 3 + BitLen(den) - BitLen(num)
        M  == (num * 2^sh) \div den
        st == IF (num * 2^sh) % den = 0 THEN 0 ELSE 1
    IN  RoundTo(1, M, -sh, st)

One == FromInt(1)

Neg(a) == IF a.k = "nan" \/ IsZero(a) THEN a ELSE [a EXCEPT !.s = -a.s]

Abs(a) == IF a.k = "nan" THEN a ELSE [a EXCEPT !.s = 1]

\* a + b
Add(a, b) ==
    IF IsNaN(a) \/ IsNaN(b) THEN NaN
    ELSE IF IsInf(a) /\ IsInf(b) THEN (IF a.s = b.s THEN a ELSE NaN)
    ELSE IF IsInf(a) THEN a
    ELSE IF IsInf(b) THEN b
    ELSE IF a.m = 0 THEN b
    ELSE IF b.m = 0 THEN a
    ELSE
    LET hi == IF a.e >= b.e THEN a ELSE b
        lo == IF a.e >= b.e THEN b ELSE a
        d  == hi.e - lo.e
    IN  IF d > Prec + 2
        THEN \* lo is below a quarter of hi's last place: only its sign matters
             IF hi.s = lo.s
             THEN RoundTo(hi.s, hi.m * 4, hi.e - 2, 1)
             ELSE RoundTo(hi.s, hi.m * 4 - 1, hi.e - 2, 1)
        ELSE LET M == hi.s * hi.m * 2^d + lo.s * lo.m
             IN  IF M >= 0 THEN RoundTo(1, M, lo.e, 0)
                 ELSE RoundTo(-1, -M, lo.e, 0)

\* a - b
Sub(a, b) == Add(a, Neg(b))

\* a * b
Mul(a, b) ==
    IF IsNaN(a) \/ IsNaN(b) THEN NaN
    ELSE IF IsInf(a) \/ IsInf(b)
         THEN (IF IsZero(a) \/ IsZero(b) THEN NaN ELSE SignedInf(a.s * b.s))
    ELSE RoundTo(a.s * b.s, a.m * b.m, a.e + b.e, 0)

\* a / b
Div(a, b) ==
    IF IsNaN(a) \/ IsNaN(b) THEN NaN
    ELSE IF IsInf(a) THEN (IF IsInf(b) THEN NaN ELSE SignedInf(a.s * b.s))
    ELSE IF IsInf(b) THEN Zero
    ELSE IF IsZero(b) THEN (IF IsZero(a) THEN NaN ELSE SignedInf(a.s))
    ELSE IF IsZero(a) THEN Zero
    ELSE
    LET sh == Prec + 3 + BitLen(b.m) - BitLen(a.m)
        M  == (a.m * 2^sh) \div b.m
        st == IF (a.m * 2^sh) % b.m = 0 THEN 0 ELSE 1
    IN  RoundTo(a.s * b.s, M, a.e - b.e - sh, st)

RECURSIVE ISqrtBits(_, _, _)
\* Floor of the square root of M, found bit by bit from bit i downwards.
ISqrtBits(M, r, i) ==
    IF i < 0 THEN r
    ELSE LET c == r + 2^i
         IN  ISqrtBits(M, IF c * c <= M THEN c ELSE r, i - 1)

\* sqrt(a)
Sqrt(a) ==
    IF IsNaN(a) THEN NaN
    ELSE IF IsZero(a) THEN Zero
    ELSE IF a.s = -1 THEN NaN
    ELSE IF IsInf(a) THEN Inf
    ELSE
    LET sh0 == MaxOf(0, 2 * Prec + 3 - BitLen(a.m))
        sh  == IF (a.e - sh0) % 2 = 0 THEN sh0 ELSE sh0 + 1
        M   == a.m * 2^sh
        r   == ISqrtBits(M, 0, Prec + 3)
    IN  RoundTo(1, r, (a.e - sh) \div 2, IF r * r = M THEN 0 ELSE 1)

\* a < b (false when either is NaN)
Lt(a, b) ==
    /\ ~IsNaN(a) /\ ~IsNaN(b)
    /\ a # b
    /\ LET d == Sub(a, b) IN d.s = -1

\* a <= b (false when either is NaN)
Le(a, b) == ~IsNaN(a) /\ ~IsNaN(b) /\ (a = b \/ Lt(a, b))

\* ln 2 in units of 2^-19 and of 2^-18: the constants of the argument
\* reductions of Exp and Log below.
Ln2Q19 == 363409

Ln2Q18 == 181704

\* The finite value z in units of 2^-F, rounded down (|z| < 2^11).
ToFix(z, F) ==
    IF z.e + F >= 0 THEN z.s * z.m * 2^(z.e + F)
    ELSE IF -(z.e + F) > Prec THEN (IF z.s = 1 \/ z.m = 0 THEN 0 ELSE -1)
    ELSE (z.s * z.m) \div 2^(-(z.e + F))

RECURSIVE ExpSer(_, _)
\* e^g for 0 <= g < ln 2, g and the result in units of 2^-14: the Taylor
\* series 1 + g (1 + g/2 (1 + g/3 (...))).
ExpSer(g, i) ==
    IF i > 10 THEN 2^14
    ELSE 2^14 + (g * ExpSer(g, i + 1)) \div (i * 2^14)

\* exp(z): e^z = 2^n * e^r with z = n ln 2 + r, 0 <= r < ln 2; the result
\* is rounded to the format, infinite on overflow, subnormal and then zero
\* on underflow.
Exp(z) ==
    IF IsNaN(z) THEN NaN
    ELSE IF IsInf(z) THEN (IF z.s = 1 THEN Inf ELSE Zero)
    ELSE IF IsZero(z) THEN One
    ELSE IF BitLen(z.m) + z.e > 11 THEN (IF z.s = 1 THEN Inf ELSE Zero)
    ELSE
    LET V == ToFix(z, 19)
        n == V \div Ln2Q19
        r == V - n * Ln2Q19
    IN  RoundTo(1, ExpSer(r \div 32, 1), n - 14, 0)

RECURSIVE AtanhSer(_, _)
\* atanh(u)/u = 1 + w/3 + w^2/5 + ... with w = u^2, in units of 2^-14.
AtanhSer(w, i) ==
    IF i >= 11 THEN 2^14 \div i
    ELSE (2^14 \div i) + (w * AtanhSer(w, i + 2)) \div 2^14

\* log(x), the natural logarithm: ln x = E ln 2 + ln m for x = m * 2^E,
\* 1 <= m < 2, and ln m = 2 atanh((m - 1)/(m + 1)).
Log(x) ==
    IF IsNaN(x) THEN NaN
    ELSE IF IsZero(x) THEN NegInf
    ELSE IF x.s = -1 THEN NaN
    ELSE IF IsInf(x) THEN Inf
    ELSE
    LET L   == BitLen(x.m)
        top == 2^(L - 1)
        E1  == x.e + L - 1
        u   == ((x.m - top) * 2^18) \div (x.m + top)
        u14 == u \div 16
        w   == (u14 * u14) \div 2^14
        lnm == (u * AtanhSer(w, 1)) \div 2^13
        V   == E1 * Ln2Q18 + lnm
    IN  IF V >= 0 THEN RoundTo(1, V, -18, 0) ELSE RoundTo(-1, -V, -18, 0)

\* base ** y for a positive finite base (numpy.power).
Power(base, y) == Exp(Mul(y, Log(base)))

\* numpy.spacing(a) for a finite a > 0: the distance from a to the next
\* larger value, one unit in the last place of a.
Spacing(a) == RoundTo(1, 1, a.e, 0)

\* ------------------------------------------------------------------------
\* State
\* ------------------------------------------------------------------------

VARIABLES
    pc,          \* where the script, or the call, stands
    alpha,       \* penalty: the mixing parameter
    beta,        \* penalty, lmb: the coefficient vector
    P,           \* penalty: the value returned
    z,           \* qu: the argument
    z2,          \* qu: the argument of a second evaluation
    q,           \* qu(z)
    q2,          \* qu(z2)
    beta0,       \* lmb: the intercept
    x,           \* lmb: the predictor rows
    lam,         \* lmb(beta0, beta, x)
    qz,          \* qu(beta0 + dot(x, beta))
    reg_lambda,  \* plot_poisson: the regularization path
    model,       \* plot_poisson: the GLM and its configuration
    valid,       \* fit: whether (X, y) passes fit's validation
    k,           \* fit: the path point being solved, 1..Len(reg_lambda)
    st,          \* fit: the optimizer's state at that path point
    n_iter,      \* fit: iterations done at that path point
    coef,        \* fit: the optimizer's current coefficients
    warm,        \* fit: the coefficients the path point started from
    fit_         \* fit: the stored results, one per solved path point

penaltyVars == <<alpha, P>>

quVars == <<z, z2, q, q2>>

lmbVars == <<beta0, x, lam, qz>>

fitVars == <<reg_lambda, model, valid, k, st, n_iter, coef, warm, fit_>>

vars == <<pc, beta, penaltyVars, quVars, lmbVars, fitVars>>

\* A variable the evaluation at hand does not use.
Unused == <<>>

NoPenalty == alpha = Unused /\ P = Unused

NoQu == z = Unused /\ z2 = Unused /\ q = Unused /\ q2 = Unused

NoLmb == beta0 = Unused /\ x = Unused /\ lam = Unused /\ qz = Unused

NoFit ==
    /\ reg_lambda = Unused /\ model = Unused /\ valid = Unused
    /\ k = Unused /\ st = Unused /\ n_iter = Unused
    /\ coef = Unused /\ warm = Unused /\ fit_ = Unused

\* ------------------------------------------------------------------------
\* Vectors (numpy arrays of one dimension) are sequences of values
\* ------------------------------------------------------------------------

RECURSIVE SumSeq(_)
\* The sum of the entries of v, accumulated from the first entry on.
SumSeq(v) ==
    IF Len(v) = 0 THEN Zero
    ELSE IF Len(v) = 1 THEN v[1]
    ELSE Add(SumSeq(SubSeq(v, 1, Len(v) - 1)), v[Len(v)])

\* numpy.dot(u, v) of two vectors of the same length
Dot(u, v) == SumSeq([i \in 1..Len(u) |-> Mul(u[i], v[i])])

\* numpy.linalg.norm(v, 2) = sqrt(dot(v, v))
Norm2(v) == Sqrt(Dot(v, v))

\* numpy.linalg.norm(v, 1) = sum(abs(v))
Norm1(v) == SumSeq([i \in 1..Len(v) |-> Abs(v[i])])

\* ------------------------------------------------------------------------
\* examples/plot_glmnet.py: the elastic net penalty
\* ------------------------------------------------------------------------

Half == FromRatio(5, 10)

\* penalty with the weight (1 - alpha) of the L2 term left out.
penalty_unweighted(a, b) ==
    Add(Mul(Half, Norm2(b)), Mul(a, Norm1(b)))

\* def penalty(alpha, beta)
penalty(a, b) ==
    Add(Mul(Mul(Half, Sub(One, a)), Norm2(b)), Mul(a, Norm1(b)))

\* The penalty as the example documents it,
\*   P_alpha(beta) = (1 - alpha) 1/2 ||beta||_2^2 + alpha ||beta||_1,
\* computed in the order penalty computes.
ElasticNet(a, b) ==
    Add(Mul(Mul(Half, Sub(One, a)), Dot(b, b)), Mul(a, Norm1(b)))

\* Bounds of the inputs of penalty: alpha is i/AlphaSteps for i in
\* 0..AlphaSteps; beta has 1..MaxLen entries, each an integer of magnitude
\* at most MaxBeta, a half, or of magnitude 2^BigExp (whose square is not
\* finite).
AlphaSteps == 4

MaxLen == 2

MaxBeta == 2

BigExp == 600

AlphaSet == {Zero} \cup {FromRatio(i, AlphaSteps) : i \in 1..AlphaSteps}

Big == [k |-> "fin", s |-> 1, m |-> 2^(Prec - 1), e |-> BigExp - (Prec - 1)]

BetaVals ==
    {FromInt(i) : i \in -MaxBeta..MaxBeta} \cup {Half, Big, Neg(Big)}

VecSet(S, n) == UNION {[1..l -> S] : l \in 1..n}

InitPenalty ==
    /\ pc = "penalty"
    /\ alpha \in AlphaSet
    /\ beta \in VecSet(BetaVals, MaxLen)
    /\ P = Unused
    /\ NoQu /\ NoLmb /\ NoFit

\* P = penalty(alpha, beta)
CallPenalty ==
    /\ pc = "penalty"
    /\ P' = penalty(alpha, beta)
    /\ pc' = "done"
    /\ UNCHANGED <<alpha, beta, quVars, lmbVars, fitVars>>

SpecPenalty == InitPenalty /\ [][CallPenalty]_vars

\* C1: for every alpha in [0, 1] and every beta, penalty(alpha, beta) is
\* (1 - alpha) 1/2 ||beta||_2^2 + alpha ||beta||_1, the L2 term being the
\* squared norm.
C1_PenaltyIsElasticNet ==
    pc = "done" => P = ElasticNet(alpha, beta)

\* C2: for every beta, penalty(0, beta) is one half of the squared L2 norm
\* of beta.
C2_RidgeAtAlphaZero ==
    pc = "done" /\ alpha = Zero => P = Mul(Half, Dot(beta, beta))

\* C3, as claimed: for every beta, penalty(1, beta) is exactly the L1 norm
\* of beta.
C3_LassoAtAlphaOne ==
    pc = "done" /\ alpha = One => P = Norm1(beta)

\* C3, amended: for every beta whose L2 norm is computed finite (the sum of
\* the squares does not overflow), penalty(1, beta) is exactly the L1 norm
\* of beta.
C3_LassoAtAlphaOneFiniteNorm ==
    pc = "done" /\ alpha = One /\ IsFinite(Norm2(beta)) => P = Norm1(beta)

\* C3's case: alpha = 1 and a beta of two non-zero entries, whose L2 norm is
\* finite and positive, and the penalty returned is its L1 norm.
C3_Witness ==
    /\ pc = "done" /\ alpha = One
    /\ Len(beta) = 2 /\ ~IsZero(beta[1]) /\ ~IsZero(beta[2])
    /\ IsFinite(Norm2(beta)) /\ Lt(Zero, Norm2(beta))
    /\ P = Norm1(beta)

\* ------------------------------------------------------------------------
\* examples/plot_glmnet.py: the conditional intensity function
\* ------------------------------------------------------------------------

\* qu without the epsilon inside the log.
qu_noeps(zz) == Log(Add(One, Exp(zz)))

\* qu with the sign of its argument lost.
qu_negated(zz) ==
    LET eps == Spacing(One)
    IN  Log(Add(Add(One, eps), Exp(Neg(zz))))

\* def qu(z): eps = np.spacing(1); return np.log(1 + eps + np.exp(z))
qu(zz) ==
    LET eps == Spacing(One)
    IN  Log(Add(Add(One, eps), Exp(zz)))

\* lmb without the epsilon inside the log.
lmb_noeps(b0, b, xx) ==
    LET zz == [i \in 1..Len(xx) |-> Add(b0, Dot(xx[i], b))]
    IN  [i \in 1..Len(xx) |-> Log(Add(One, Exp(zz[i])))]

\* def lmb(beta0, beta, x), x an array of rows: z = beta0 + np.dot(x, beta)
\* has one entry per row, and log and exp act entry by entry.
lmb(b0, b, xx) ==
    LET eps == Spacing(One)
        zz  == [i \in 1..Len(xx) |-> Add(b0, Dot(xx[i], b))]
    IN  [i \in 1..Len(xx) |-> Log(Add(Add(One, eps), Exp(zz[i])))]

\* Bounds of the arguments of qu: i * 2^j for |i| <= MaxZMant and
\* -ZExpLo <= j <= ZExpHi, and the two infinities.
MaxZMant == 15

ZExpLo == 2

ZExpHi == 7

Dyadic(i, j) == IF i >= 0 THEN RoundTo(1, i, j, 0) ELSE RoundTo(-1, -i, j, 0)

ZSet ==
    {Dyadic(i, j) : i \in -MaxZMant..MaxZMant, j \in -ZExpLo..ZExpHi}
        \cup {Inf, NegInf}

InitQu ==
    /\ pc = "qu"
    /\ z \in ZSet
    /\ z2 \in ZSet
    /\ q = Unused /\ q2 = Unused
    /\ beta = Unused
    /\ NoPenalty /\ NoLmb /\ NoFit

\* q = qu(z); q2 = qu(z2)
CallQu ==
    /\ pc = "qu"
    /\ q' = qu(z)
    /\ q2' = qu(z2)
    /\ pc' = "done"
    /\ UNCHANGED <<z, z2, beta, penaltyVars, lmbVars, fitVars>>

SpecQu == InitQu /\ [][CallQu]_vars

\* C4: for every z with |z| <= 1000, qu(z) is finite.
C4_QuFiniteUpTo1000 ==
    pc = "done" /\ Le(Abs(z), FromInt(1000)) => IsFinite(q)

\* C5: for every z, qu(z) > 0.
C5_QuPositive ==
    pc = "done" => Lt(Zero, q)

\* C5's case: exp(z) underflows to 0 and qu(z) = log(1 + eps) is positive.
C5_Witness ==
    pc = "done" /\ IsFinite(z) /\ Exp(z) = Zero /\ Lt(Zero, q)

\* C6, as claimed: for every pair of numbers z < z2, qu(z) < qu(z2).
C6_QuStrictlyIncreasing ==
    pc = "done" /\ IsFinite(z) /\ IsFinite(z2) /\ Lt(z, z2) => Lt(q, q2)

\* C6, amended: for every pair z < z2 (infinite arguments included),
\* qu(z) <= qu(z2).
C6_QuNonDecreasing ==
    pc = "done" /\ Lt(z, z2) => Le(q, q2)

\* C6's case: two finite arguments z < z2 with qu(z) < qu(z2).
C6_Witness ==
    /\ pc = "done" /\ IsFinite(z) /\ IsFinite(z2)
    /\ Lt(z, z2) /\ Lt(q, q2)

\* Bounds of the arguments of lmb: x has 1..MaxRows rows of NCols entries,
\* NCols in 1..MaxCols, and beta has NCols entries.
MaxRows == 2

MaxCols == 2

B0Vals == {FromInt(-8), Zero, One}

BVals == {FromInt(-4), Half, FromInt(2)}

XVals == {FromInt(-1), FromInt(3)}

InitLmb ==
    /\ pc = "lmb"
    /\ beta0 \in B0Vals
    /\ \E p \in 1..MaxCols :
          /\ beta \in [1..p -> BVals]
          /\ x \in UNION {[1..r -> [1..p -> XVals]] : r \in 1..MaxRows}
    /\ lam = Unused /\ qz = Unused
    /\ NoPenalty /\ NoQu /\ NoFit

\* lam = lmb(beta0, beta, x); qz = qu(beta0 + np.dot(x, beta))
CallLmb ==
    /\ pc = "lmb"
    /\ lam' = lmb(beta0, beta, x)
    /\ qz' = [i \in 1..Len(x) |-> qu(Add(beta0, Dot(x[i], beta)))]
    /\ pc' = "done"
    /\ UNCHANGED <<beta0, x, beta, penaltyVars, quVars, fitVars>>

SpecLmb == InitLmb /\ [][CallLmb]_vars

\* C10: for every beta0, beta and rows x, lmb(beta0, beta, x) is
\* qu(beta0 + dot(x, beta)), entry by entry.
C10_LmbIsQu ==
    pc = "done" => lam = qz

\* C10's case: two rows with different intensities, one of them below
\* log(1 + 2 eps), where the epsilon decides the value.
C10_Witness ==
    /\ pc = "done" /\ Len(x) = 2 /\ lam = qz
    /\ lam[1] # lam[2]
    /\ \E i \in 1..2 : Lt(lam[i], Log(Add(One, Mul(FromInt(2), Spacing(One)))))

\* ------------------------------------------------------------------------
\* examples/plot_poisson.py: the regularization path and the model
\* ------------------------------------------------------------------------

\* linspace with endpoint=False: num steps, stop left out.
linspace_noendpoint(start, stop, num) ==
    LET step == Div(Sub(stop, start), FromInt(num))
    IN  [i \in 1..num |-> Add(Mul(FromInt(i - 1), step), start)]

\* numpy.linspace(start, stop, num): num evenly spaced values, the last one
\* stop itself.
linspace(start, stop, num) ==
    LET step == Div(Sub(stop, start), FromInt(num - 1))
    IN  [i \in 1..num |->
            IF i = num THEN stop ELSE Add(Mul(FromInt(i - 1), step), start)]

\* numpy.logspace(start, stop, num, base) = power(base, linspace(...))
logspace(start, stop, num, base) ==
    LET y == linspace(start, stop, num)
    IN  [i \in 1..num |-> Power(base, y[i])]

\* The number of path points the example asks logspace for.
NumLambda == 10

\* The iteration budget of the optimizer.  The example configures
\* max_iter=1000; the model runs the same optimizer with a budget of MaxIter.
MaxIter == 2

\* GLM(distr, verbose, alpha, max_iter, learning_rate, reg_lambda): the
\* model keeps its configuration.
GLM(distr, verbose, a, max_iter, learning_rate, path) ==
    [distr |-> distr, verbose |-> verbose, alpha |-> a,
     max_iter |-> max_iter, learning_rate |-> learning_rate,
     reg_lambda |-> path]

\* A coefficient vector (beta0, beta) is named by the iterate it is: iterate
\* it of the optimizer at path point pt; the zero vector is iterate 0 of no
\* path point.
ZeroCoef == [pt |-> 0, it |-> 0]

Terminal == {"Converged", "MaxIterReached"}

InitFit ==
    /\ pc = "start"
    /\ valid \in BOOLEAN
    /\ reg_lambda = Unused /\ model = Unused
    /\ k = Unused /\ st = Unused /\ n_iter = Unused
    /\ coef = Unused /\ warm = Unused /\ fit_ = Unused
    /\ beta = Unused
    /\ NoPenalty /\ NoQu /\ NoLmb

fitState == <<k, st, n_iter, coef, warm, fit_>>

\* reg_lambda = np.logspace(np.log(0.5), np.log(0.01), 10, base=np.exp(1))
MakeRegLambda ==
    /\ pc = "start"
    /\ reg_lambda' = logspace(Log(FromRatio(5, 10)), Log(FromRatio(1, 100)),
                              NumLambda, Exp(One))
    /\ pc' = "construct"
    /\ UNCHANGED <<model, valid, fitState, beta, penaltyVars, quVars, lmbVars>>

\* model = GLM(distr='poisson', verbose=False, alpha=0.05, max_iter=...,
\*             learning_rate=1e-4, reg_lambda=reg_lambda)
ConstructGLM ==
    /\ pc = "construct"
    /\ model' = GLM("poisson", FALSE, FromRatio(5, 100), MaxIter,
                    FromRatio(1, 10000), reg_lambda)
    /\ pc' = "ready"
    /\ UNCHANGED <<reg_lambda, valid, fitState, beta, penaltyVars, quVars,
                   lmbVars>>

\* fit(X, y) on data that fails validation: ValidationError, nothing stored.
FitRejects ==
    /\ pc = "ready"
    /\ ~valid
    /\ pc' = "ValidationError"
    /\ UNCHANGED <<reg_lambda, model, valid, fitState, beta, penaltyVars,
                   quVars, lmbVars>>

\* fit(X, y) on valid data: the optimizer is initialized at the first path
\* point, from the zero vector.
FitBegins ==
    /\ pc = "ready"
    /\ valid
    /\ pc' = "fit"
    /\ k' = 1
    /\ st' = "Initialized"
    /\ n_iter' = 0
    /\ coef' = ZeroCoef
    /\ warm' = ZeroCoef
    /\ fit_' = <<>>
    /\ UNCHANGED <<reg_lambda, model, valid, beta, penaltyVars, quVars,
                   lmbVars>>

\* Iterate with the budget test off by one: one iteration too many.
Iterate_overrun ==
    /\ pc = "fit"
    /\ st \in {"Initialized", "Iterating"}
    /\ n_iter <= model.max_iter
    /\ n_iter' = n_iter + 1
    /\ coef' = [pt |-> k, it |-> n_iter + 1]
    /\ \E converged \in BOOLEAN :
          st' = IF converged THEN "Converged"
                ELSE IF n_iter = model.max_iter THEN "MaxIterReached"
                ELSE "Iterating"
    /\ UNCHANGED <<pc, k, warm, fit_, reg_lambda, model, valid, beta,
                   penaltyVars, quVars, lmbVars>>

\* One iteration (gradient step, soft threshold, convergence test): the
\* test's outcome depends on the data.
Iterate ==
    /\ pc = "fit"
    /\ st \in {"Initialized", "Iterating"}
    /\ n_iter < model.max_iter
    /\ n_iter' = n_iter + 1
    /\ coef' = [pt |-> k, it |-> n_iter + 1]
    /\ \E converged \in BOOLEAN :
          st' = IF converged THEN "Converged"
                ELSE IF n_iter + 1 = model.max_iter THEN "MaxIterReached"
                ELSE "Iterating"
    /\ UNCHANGED <<pc, k, warm, fit_, reg_lambda, model, valid, beta,
                   penaltyVars, quVars, lmbVars>>

\* StorePoint that starts every path point from the zero vector.
StorePoint_coldstart ==
    /\ pc = "fit"
    /\ st \in Terminal
    /\ fit_' = Append(fit_, [lam |-> model.reg_lambda[k], coef |-> coef,
                             warm |-> warm])
    /\ IF k < Len(model.reg_lambda)
       THEN /\ k' = k + 1
            /\ st' = "Initialized"
            /\ n_iter' = 0
            /\ warm' = ZeroCoef
            /\ coef' = ZeroCoef
            /\ UNCHANGED pc
       ELSE /\ pc' = "fitted"
            /\ UNCHANGED <<k, st, n_iter, coef, warm>>
    /\ UNCHANGED <<reg_lambda, model, valid, beta, penaltyVars, quVars,
                   lmbVars>>

\* The path point is over: its coefficients are stored, and they start the
\* next path point, if there is one.
StorePoint ==
    /\ pc = "fit"
    /\ st \in Terminal
    /\ fit_' = Append(fit_, [lam |-> model.reg_lambda[k], coef |-> coef,
                             warm |-> warm])
    /\ IF k < Len(model.reg_lambda)
       THEN /\ k' = k + 1
            /\ st' = "Initialized"
            /\ n_iter' = 0
            /\ warm' = coef
            /\ UNCHANGED <<pc, coef>>
       ELSE /\ pc' = "fitted"
            /\ UNCHANGED <<k, st, n_iter, coef, warm>>
    /\ UNCHANGED <<reg_lambda, model, valid, beta, penaltyVars, quVars,
                   lmbVars>>

NextFit ==
    \/ MakeRegLambda
    \/ ConstructGLM
    \/ FitRejects
    \/ FitBegins
    \/ Iterate
    \/ StorePoint

SpecFit == InitFit /\ [][NextFit]_vars

\* The optimizer's loop runs on: an iteration or a store that can be done is
\* done.
FairSpecFit == SpecFit /\ WF_vars(Iterate) /\ WF_vars(StorePoint)

\* a is within n units in the last place of b.
WithinUlps(a, b, n) == Le(Abs(Sub(a, b)), Mul(FromInt(n), Spacing(b)))

C8_Safety ==
    pc = "fit" =>
        /\ n_iter \in 0..model.max_iter
        /\ st = "MaxIterReached" => n_iter = model.max_iter
        /\ st \in Terminal => n_iter >= 1 /\ coef = [pt |-> k, it |-> n_iter]

C8_Retained ==
    pc = "fit" /\ st \in Terminal =>
        /\ pc' \in {"fit", "fitted"}
        /\ Len(fit_') = Len(fit_) + 1
        /\ fit_'[Len(fit_')].coef = coef

C8_Terminates ==
    (pc = "fit" /\ st = "Initialized") ~> (pc = "fit" /\ st \in Terminal)

C9_OnePerLambdaInOrder ==
    /\ pc = "fitted" => valid /\ Len(fit_) = Len(model.reg_lambda)
    /\ pc = "fit" =>
          /\ Len(fit_) = k - 1
          /\ warm = IF k = 1 THEN ZeroCoef ELSE fit_[k - 1].coef
          /\ st = "Initialized" => coef = warm
    /\ pc \in {"fit", "fitted"} =>
          \A i \in 1..Len(fit_) :
              /\ fit_[i].lam = model.reg_lambda[i]
              /\ fit_[i].coef.pt = i
              /\ fit_[i].warm =
                    IF i = 1 THEN ZeroCoef ELSE fit_[i - 1].coef

\* C9's case: fit has returned, with 10 stored results.
C9_Witness ==
    /\ pc = "fitted" /\ valid
    /\ Len(fit_) = 10
    /\ fit_[10].lam = reg_lambda[10]
    /\ fit_[10].warm = fit_[9].coef

=============================================================================
